---- MODULE Spec2Model ----
(***************************************************************************)
(* fn_block: macros that wrap an expression or block into a closure that   *)
(* is called on the spot (fn_expr!, fn_block!, fn_try!) and the traits     *)
(* IntoSome / IntoOk.                                                      *)
(*                                                                         *)
(* The macros are modelled as what they are: rewritings of a token tree    *)
(* into an expression.  The expression is then run by a small-step         *)
(* evaluator of the Rust fragment the crate's tests, doc examples and      *)
(* benchmark use: method chains, `?`, let bindings, closures that are      *)
(* called, and match.  A run is one enclosing function (a test body) that  *)
(* executes its statements in order on inputs chosen in Init.              *)
(***************************************************************************)
EXTENDS Integers, Sequences, FiniteSets

VARIABLES
    inp,        \* the inputs of the enclosing function (fixed during a run)
    stack,      \* call stack: enclosing function at the bottom, closures above
    stmt,       \* index of the statement the enclosing function executes
    res,        \* res[k]: the value bound by statement k (`let foo = ...;`)
    macroVal,   \* macroVal[k]: the value the closure call of statement k gave
    calls,      \* calls[k]: number of times the closure of statement k was called
    log,        \* the steps evaluated so far, in order
    exit        \* "running", "returned", "early" (left by `?`), "panic"

vars == <<inp, stack, stmt, res, macroVal, calls, log, exit>>

-----------------------------------------------------------------------------
(* Bounds of the model *)

MaxTextLen == 3     \* longest generated text of the showcase scenario
MaxBytesLen == 3    \* longest generated byte slice of the parsing scenarios

-----------------------------------------------------------------------------
(* Values.  Every value carries a tag, so that a bare value, an Option and *)
(* a Result are told apart.                                                *)

None == [tag |-> "None"]
Some(x) == [tag |-> "Some", v |-> x]
Ok(x) == [tag |-> "Ok", v |-> x]
Err(e) == [tag |-> "Err", v |-> e]
Num(n) == [tag |-> "int", v |-> n]
Str(s) == [tag |-> "str", v |-> s]
Bytes(b) == [tag |-> "bytes", v |-> b]
Unset == [tag |-> "unset"]

\* A u32 keeps its 32 bits as two 16-bit limbs: the value is hi * 2^16 + lo.
Limb == 2 ^ 16
U32(hi, lo) == [tag |-> "u32", hi |-> hi, lo |-> lo]
U32Max == U32(Limb - 1, Limb - 1)
\* a * m + d for small m and d: the exact result, and whether it leaves 32 bits
U32MulAddOverflows(a, m, d) == a.hi * m + ((a.lo * m + d) \div Limb) >= Limb
U32MulAdd(a, m, d) == U32(a.hi * m + ((a.lo * m + d) \div Limb), (a.lo * m + d) % Limb)

Utf8Error == [tag |-> "Utf8Error"]
ParseIntError(kind) == [tag |-> "ParseIntError", kind |-> kind]
StrParseErr == [tag |-> "ConvertErr::StrParseErr"]
IntParseErr == [tag |-> "ConvertErr::IntParseErr"]
ConvertErrUnit == [tag |-> "ConvertErr()"]

-----------------------------------------------------------------------------
(* The standard-library operations the wrapped chains call.  A str is the  *)
(* sequence of its code points; a byte slice is a sequence of 0..255.      *)

SeqsUpTo(S, n) == UNION {[1..k -> S] : k \in 0..n}

Utf8Len(c) == IF c < 128 THEN 1 ELSE IF c < 2048 THEN 2 ELSE IF c < 65536 THEN 3 ELSE 4

RECURSIVE ByteLen(_)
ByteLen(s) == IF s = <<>> THEN 0 ELSE Utf8Len(s[1]) + ByteLen(Tail(s))

IsCont(b) == b \in 128..191

\* core::str::from_utf8: the validation of the byte slice
RECURSIVE Utf8Valid(_)
Utf8Valid(b) ==
    IF b = <<>> THEN TRUE
    ELSE IF b[1] < 128 THEN Utf8Valid(Tail(b))
    ELSE IF b[1] \in 194..223
        THEN Len(b) >= 2 /\ IsCont(b[2]) /\ Utf8Valid(SubSeq(b, 3, Len(b)))
    ELSE IF b[1] \in 224..239
        THEN /\ Len(b) >= 3 /\ IsCont(b[2]) /\ IsCont(b[3])
             /\ (b[1] = 224 => b[2] >= 160)
             /\ (b[1] = 237 => b[2] <= 159)
             /\ Utf8Valid(SubSeq(b, 4, Len(b)))
    ELSE IF b[1] \in 240..244
        THEN /\ Len(b) >= 4 /\ IsCont(b[2]) /\ IsCont(b[3]) /\ IsCont(b[4])
             /\ (b[1] = 240 => b[2] >= 144)
             /\ (b[1] = 244 => b[2] <= 143)
             /\ Utf8Valid(SubSeq(b, 5, Len(b)))
    ELSE FALSE

\* the code points of a valid byte slice
RECURSIVE Utf8Decode(_)
Utf8Decode(b) ==
    IF b = <<>> THEN <<>>
    ELSE IF b[1] < 128 THEN <<b[1]>> \o Utf8Decode(Tail(b))
    ELSE IF b[1] < 224
        THEN <<(b[1] - 192) * 64 + (b[2] - 128)>> \o Utf8Decode(SubSeq(b, 3, Len(b)))
    ELSE IF b[1] < 240
        THEN <<(b[1] - 224) * 4096 + (b[2] - 128) * 64 + (b[3] - 128)>>
                 \o Utf8Decode(SubSeq(b, 4, Len(b)))
    ELSE <<(b[1] - 240) * 262144 + (b[2] - 128) * 4096 + (b[3] - 128) * 64 + (b[4] - 128)>>
             \o Utf8Decode(SubSeq(b, 5, Len(b)))

from_utf8(x) == IF Utf8Valid(x.v) THEN Ok(Str(Utf8Decode(x.v))) ELSE Err(Utf8Error)

\* str::get(0..n): the range is in bytes and both ends must be char boundaries
StrGetTo(x, n) ==
    IF \E k \in 0..Len(x.v) : ByteLen(SubSeq(x.v, 1, k)) = n
    THEN LET k == CHOOSE j \in 0..Len(x.v) : ByteLen(SubSeq(x.v, 1, j)) = n
         IN  Some(Str(SubSeq(x.v, 1, k)))
    ELSE None

\* str::to_lowercase on the Basic Latin and Latin-1 letters
LowerChar(c) ==
    IF c \in 65..90 THEN c + 32
    ELSE IF c \in 192..222 /\ c # 215 THEN c + 32
    ELSE c

to_lowercase(x) == Str([i \in 1..Len(x.v) |-> LowerChar(x.v[i])])

\* char::is_whitespace (the White_Space property)
IsWhitespace(c) ==
    c \in (9..13) \cup {32, 133, 160, 5760, 8232, 8233, 8239, 8287, 12288} \cup (8192..8202)

RECURSIVE TrimStart(_)
TrimStart(s) == IF s # <<>> /\ IsWhitespace(s[1]) THEN TrimStart(Tail(s)) ELSE s

RECURSIVE TrimEnd(_)
TrimEnd(s) ==
    IF s # <<>> /\ IsWhitespace(s[Len(s)]) THEN TrimEnd(SubSeq(s, 1, Len(s) - 1)) ELSE s

trim(x) == Str(TrimEnd(TrimStart(x.v)))

\* u32::from_str: the digits are folded left to right with checked
\* arithmetic (checked_mul(10), then checked_add(digit))
RECURSIVE ParseDigits(_, _)
ParseDigits(s, acc) ==
    IF s = <<>> THEN Ok(acc)
    ELSE IF s[1] \notin 48..57 THEN Err(ParseIntError("InvalidDigit"))
    ELSE IF U32MulAddOverflows(acc, 10, s[1] - 48) THEN Err(ParseIntError("PosOverflow"))
    ELSE ParseDigits(Tail(s), U32MulAdd(acc, 10, s[1] - 48))

parse_u32(x) ==
    IF x.v = <<>> THEN Err(ParseIntError("Empty"))
    ELSE IF x.v[1] \in {43, 45} /\ Len(x.v) = 1 THEN Err(ParseIntError("InvalidDigit"))
    ELSE IF x.v[1] = 43 THEN ParseDigits(Tail(x.v), U32(0, 0))
    ELSE ParseDigits(x.v, U32(0, 0))

\* Option::and_then and Option::map, with the closures of the combinator chain
and_then_get(x) == IF x.tag = "Some" THEN StrGetTo(x.v, 3) ELSE None
map_to_lowercase(x) == IF x.tag = "Some" THEN Some(to_lowercase(x.v)) ELSE None

\* Result::unwrap_or(0u32)
unwrap_or(x, d) == IF x.tag = "Ok" THEN x.v ELSE d

Unwraps(x) == x.tag \in {"Some", "Ok"}

-----------------------------------------------------------------------------
(* The crate: the traits, and the helpers of its tests and doc examples *)

\* mutant: the value is dropped instead of wrapped
into_some_lost(self) == None

\* impl<T> IntoSome for T
into_some(self) == Some(self)

\* mutant: the value lands in the success variant for one error type only
into_ok_partial(self, E) == IF E = "()" THEN Ok(self) ELSE Err(self)

\* impl<T, E> IntoOk<E> for T
into_ok(self, E) == Ok(self)

\* the predicates the tests pass to `when`
Preds == {"gt0", "even", "gt1000", "lt2000"}
Holds(predicate, self) ==
    CASE predicate = "gt0" -> self.v > 0
      [] predicate = "even" -> self.v % 2 = 0
      [] predicate = "gt1000" -> self.v > 1000
      [] predicate = "lt2000" -> self.v < 2000

\* mutant: the predicate is not consulted
when_unchecked(self, predicate) == Some(self)

\* trait Optionalize (tests)
when(self, predicate) == IF Holds(predicate, self) THEN Some(self) ELSE None

\* impl From<Utf8Error> for ConvertErr, impl From<ParseIntError> for ConvertErr
ConvertErrFrom(e) == IF e.tag = "Utf8Error" THEN StrParseErr ELSE IntParseErr

\* impl<T: Error> From<T> for ConvertErr of the doc examples (a unit struct)
ConvertErrUnitFrom(e) == ConvertErrUnit

\* From::from as `?` calls it, by the error type of the function it returns from
From(e, errTy) ==
    CASE errTy = "ConvertErr" -> ConvertErrFrom(e)
      [] errTy = "ConvertErr()" -> ConvertErrUnitFrom(e)
      [] OTHER -> e

-----------------------------------------------------------------------------
(* Token trees and expressions.  A chain is the sequence of its steps; a   *)
(* block is its statements' steps in order, with `let` storing a local.    *)

Input(name) == [op |-> "input", name |-> name]
Local(name) == [op |-> "local", name |-> name]
Let(name) == [op |-> "let", name |-> name]
Q == [op |-> "?"]
M(name) == [op |-> name]
When(p) == [op |-> "when", p |-> p]
IntoOk(E) == [op |-> "into_ok", E |-> E]
UnwrapOr(d) == [op |-> "unwrap_or", d |-> d]
Bind == [op |-> "bind"]
Expr(ops) == [block |-> FALSE, ops |-> ops]
Block(ops) == [block |-> TRUE, ops |-> ops]
Arm(pat, body) == [pat |-> pat, body |-> body]

NoTy == [con |-> "_"]
ResultTy(err) == [con |-> "Result", err |-> err]
Invoke(name, ty, body, arms) ==
    [op |-> "macro", name |-> name, ty |-> ty, body |-> body, arms |-> arms]
CallClosure(ret, body) == [op |-> "call", ret |-> ret, body |-> body]

\* mutant: the declared return type is not put on the closure
fn_block_untyped(m) == <<CallClosure(NoTy, m.body)>>

\* macro_rules! fn_block
fn_block(m) ==
    IF m.ty # NoTy
    THEN <<CallClosure(m.ty, Block(m.body.ops))>>
    ELSE <<CallClosure(NoTy, m.body)>>

\* mutant: the declared return type is not put on the closure
fn_expr_untyped(m) == <<CallClosure(NoTy, m.body)>>

\* mutant: the body is spliced in place, without the closure around it
fn_expr_inlined(m) == m.body.ops

\* macro_rules! fn_expr
fn_expr(m) ==
    IF m.ty # NoTy
    THEN <<CallClosure(m.ty, Block(m.body.ops))>>
    ELSE <<CallClosure(NoTy, m.body)>>

\* mutant: the closure's Result is handed out as it is, without the match
fn_try_unmatched(m) == <<CallClosure(NoTy, Block(m.body.ops \o <<M("Ok")>>))>>

\* macro_rules! fn_try
fn_try(m) ==
    <<CallClosure(NoTy, Block(m.body.ops \o <<M("Ok")>>)),
      [op |-> "match", arms |-> m.arms]>>

ExpandOne(t) ==
    IF t.op # "macro" THEN <<t>>
    ELSE CASE t.name = "fn_block" -> fn_block(t)
           [] t.name = "fn_expr" -> fn_expr(t)
           [] t.name = "fn_try" -> fn_try(t)

RECURSIVE Expand(_)
Expand(ts) == IF ts = <<>> THEN <<>> ELSE ExpandOne(ts[1]) \o Expand(Tail(ts))

-----------------------------------------------------------------------------
(* The wrapped bodies of the tests, doc examples and benchmark *)

\* o?.when(p1)?.when(p2)
WhenChain(p1, p2) == <<Input("o"), Q, When(p1), Q, When(p2)>>

\* { let gt_zero = o?.when(p1); gt_zero?.when(p2) }
WhenBlock(p1, p2) ==
    <<Input("o"), Q, When(p1), Let("gt_zero"), Local("gt_zero"), Q, When(p2)>>

\* o?.get(0..3)?.to_lowercase().into_some()
GetChain == <<Input("text"), Q, M("get"), Q, M("to_lowercase"), M("into_some")>>

\* Some(o?.get(0..3)?.to_lowercase())
ClosureBody == <<Input("text"), Q, M("get"), Q, M("to_lowercase"), M("Some")>>

\* { let foo = o?.get(0..3); Some(foo?.to_lowercase()) }
GetBlock ==
    <<Input("text"), Q, M("get"), Let("foo"), Local("foo"), Q, M("to_lowercase"), M("Some")>>

\* from_utf8(s)?.trim().parse::<u32>()?.into_ok()
ParseChain(E) ==
    <<Input("bytes"), M("from_utf8"), Q, M("trim"), M("parse_u32"), Q, IntoOk(E)>>

\* { let str = from_utf8(bytes)?.trim(); str.parse::<u32>()?.into_ok() }
ParseBlock(E) ==
    <<Input("bytes"), M("from_utf8"), Q, M("trim"), Let("str"),
      Local("str"), M("parse_u32"), Q, IntoOk(E)>>

\* from_utf8(s)?.trim().parse::<u32>()?
TryChain == <<Input("bytes"), M("from_utf8"), Q, M("trim"), M("parse_u32"), Q>>

\* catch { ConvertErr::StrParseErr => 0u32, ConvertErr::IntParseErr => u32::max_value() }
CatchArms == <<Arm(StrParseErr, U32(0, 0)), Arm(IntParseErr, U32Max)>>

\* catch { ConvertErr() => 0u32 }
CatchArmsUnit == <<Arm(ConvertErrUnit, U32(0, 0))>>

LocalNames == {"gt_zero", "foo", "str"}

\* The enclosing function of each scenario: its statements, each ended by
\* the binding of its value.
Program(i) ==
    CASE i.scen = "when" ->
           <<Invoke("fn_expr", NoTy, Expr(WhenChain(i.p1, i.p2)), <<>>), Bind,
             Invoke("fn_expr", NoTy, Block(WhenBlock(i.p1, i.p2)), <<>>), Bind,
             Invoke("fn_block", NoTy, Block(WhenBlock(i.p1, i.p2)), <<>>), Bind,
             Invoke("fn_expr", NoTy, Expr(WhenChain(i.p1, i.p2)), <<>>), Bind>>
      [] i.scen = "showcase" ->
           <<Input("text"), M("and_then_get"), M("map_to_lowercase"), Bind,
             CallClosure(NoTy, Expr(ClosureBody)), Bind,
             Invoke("fn_expr", NoTy, Expr(GetChain), <<>>), Bind,
             Invoke("fn_block", NoTy, Block(GetBlock), <<>>), Bind>>
      [] i.scen = "typed" ->
           <<Invoke("fn_expr", ResultTy("ConvertErr()"), Expr(ParseChain("ConvertErr()")), <<>>),
             UnwrapOr(U32(0, 0)), Bind,
             Invoke("fn_block", ResultTy("ConvertErr()"), Block(ParseBlock("ConvertErr()")), <<>>),
             UnwrapOr(U32(0, 0)), Bind,
             Invoke("fn_expr", ResultTy("ConvertErr()"), Block(ParseBlock("ConvertErr()")), <<>>),
             UnwrapOr(U32(0, 0)), Bind,
             Invoke("fn_expr", ResultTy("ConvertErr()"), Expr(ParseChain("ConvertErr()")), <<>>),
             Bind>>
      [] i.scen = "try" ->
           <<Invoke("fn_try", NoTy, Expr(TryChain), CatchArms), Bind,
             Invoke("fn_try", NoTy, Expr(TryChain), CatchArmsUnit), Bind,
             Invoke("fn_try", NoTy, Expr(TryChain), CatchArms), Bind>>
      [] i.scen = "into" ->
           <<Input("v"), IntoOk(i.E), Bind,
             Input("v"), IntoOk(i.E), M("expect"), Bind,
             Input("v"), M("into_some"), Bind,
             Input("v"), M("into_some"), M("expect"), Bind>>

StmtIds == 1..4

-----------------------------------------------------------------------------
(* The inputs *)

OVals == {None} \cup {Some(Num(n)) : n \in {-4, -1, 0, 7, 42, 1001, 1500, 2000, 2500}}

Foobar == <<70, 111, 111, 98, 97, 114>>
TextChars == {70, 111, 201}
TextVals ==
    {None, Some(Str(Foobar))} \cup {Some(Str(t)) : t \in SeqsUpTo(TextChars, MaxTextLen)}

ByteAlphabet == {32, 43, 50, 52, 90, 195, 169}
\* "4294967295" and "4294967296", and " 42 " with a trailing blank
LongBytes ==
    {<<52, 50, 57, 52, 57, 54, 55, 50, 57, 53>>, <<52, 50, 57, 52, 57, 54, 55, 50, 57, 54>>,
     <<32, 52, 50, 32>>}
BytesVals == {Bytes(b) : b \in SeqsUpTo(ByteAlphabet, MaxBytesLen) \cup LongBytes}

IntoVals ==
    {Num(42), Num(0), Str(<<102, 111, 111>>), None, Some(Num(5)), Ok(Num(1)),
     Err(Utf8Error), U32Max}
ErrTypes == {"u16", "()", "ConvertErr"}

NoInput ==
    [scen |-> "-", o |-> None, p1 |-> "gt0", p2 |-> "gt0", text |-> None,
     bytes |-> Bytes(<<>>), v |-> Unset, E |-> "()"]

Inputs ==
    {[NoInput EXCEPT !.scen = "when", !.o = o, !.p1 = p1, !.p2 = p2] :
        o \in OVals, p1 \in Preds, p2 \in Preds}
    \cup {[NoInput EXCEPT !.scen = "showcase", !.text = t] : t \in TextVals}
    \cup {[NoInput EXCEPT !.scen = sc, !.bytes = b] : sc \in {"typed", "try"}, b \in BytesVals}
    \cup {[NoInput EXCEPT !.scen = "into", !.v = v, !.E = E] : v \in IntoVals, E \in ErrTypes}

-----------------------------------------------------------------------------
(* Evaluation.  A frame is a function or closure being executed. *)

Frame(ops, errTy, kind) ==
    [ops |-> ops, pc |-> 1, val |-> Unset, locals |-> [n \in LocalNames |-> Unset],
     errTy |-> errTy, kind |-> kind]

Top == stack[Len(stack)]
Running == stack # <<>> /\ exit = "running"
AtOp == Running /\ Top.pc <= Len(Top.ops)
Cur == Top.ops[Top.pc]

Ev(name, ok, n) == [k |-> stmt, d |-> Len(stack), pc |-> Top.pc, op |-> name, ok |-> ok, n |-> n]

\* the step at pc is done and left value v
Step(v) == stack' = [stack EXCEPT ![Len(stack)] = [@ EXCEPT !.pc = @ + 1, !.val = v]]

\* mutant: the value is left in the closure, which goes on with its next step
ReturnValue_stay(v) == Step(v) /\ UNCHANGED macroVal

\* mutant: the caller is handed the value but stays at the call, and calls again
ReturnValue_retry(v) ==
    IF Len(stack) = 1
    THEN stack' = <<>> /\ UNCHANGED macroVal
    ELSE /\ stack' = [SubSeq(stack, 1, Len(stack) - 1) EXCEPT
                        ![Len(stack) - 1] = [@ EXCEPT !.val = v]]
         /\ macroVal' = [macroVal EXCEPT ![stmt] = v]

\* the innermost function or closure returns v to the frame that called it
ReturnValue(v) ==
    IF Len(stack) = 1
    THEN stack' = <<>> /\ UNCHANGED macroVal
    ELSE /\ stack' = [SubSeq(stack, 1, Len(stack) - 1) EXCEPT
                        ![Len(stack) - 1] = [@ EXCEPT !.pc = @ + 1, !.val = v]]
         /\ macroVal' = [macroVal EXCEPT ![stmt] = v]

Methods ==
    {"when", "get", "to_lowercase", "into_some", "into_ok", "Some", "Ok", "from_utf8",
     "trim", "parse_u32", "and_then_get", "map_to_lowercase", "unwrap_or"}

ApplyMethod(o, x) ==
    CASE o.op = "when" -> when(x, o.p)
      [] o.op = "get" -> StrGetTo(x, 3)
      [] o.op = "to_lowercase" -> to_lowercase(x)
      [] o.op = "into_some" -> into_some(x)
      [] o.op = "into_ok" -> into_ok(x, o.E)
      [] o.op = "Some" -> Some(x)
      [] o.op = "Ok" -> Ok(x)
      [] o.op = "from_utf8" -> from_utf8(x)
      [] o.op = "trim" -> trim(x)
      [] o.op = "parse_u32" -> parse_u32(x)
      [] o.op = "and_then_get" -> and_then_get(x)
      [] o.op = "map_to_lowercase" -> map_to_lowercase(x)
      [] o.op = "unwrap_or" -> unwrap_or(x, o.d)

\* what `?` returns from the function when its operand does not unwrap
Residual(x, errTy) == IF x.tag = "None" THEN None ELSE Err(From(x.v, errTy))

\* the error type of a closure: the one declared, else the one the patterns
\* of the match on its result fix
PatType(pat) == IF pat = ConvertErrUnit THEN "ConvertErr()" ELSE "ConvertErr"
ErrTypeOf(c, rest) ==
    IF c.ret # NoTy THEN c.ret.err
    ELSE IF rest # <<>> /\ rest[1].op = "match" THEN PatType(rest[1].arms[1].pat)
    ELSE "-"

\* mutant: the first arm is taken whatever its pattern
FirstArm_any(arms, e) == 1

FirstArm(arms, e) == CHOOSE j \in 1..Len(arms) :
    arms[j].pat = e /\ \A h \in 1..(j - 1) : arms[h].pat # e

Load ==
    /\ AtOp /\ Cur.op \in {"input", "local"}
    /\ Step(IF Cur.op = "input" THEN inp[Cur.name] ELSE Top.locals[Cur.name])
    /\ log' = Append(log, Ev(Cur.op, TRUE, 0))
    /\ UNCHANGED <<inp, stmt, res, macroVal, calls, exit>>

LetLocal ==
    /\ AtOp /\ Cur.op = "let"
    /\ stack' = [stack EXCEPT ![Len(stack)] =
                    [@ EXCEPT !.pc = @ + 1, !.val = Unset, !.locals[Cur.name] = Top.val]]
    /\ log' = Append(log, Ev("let", TRUE, 0))
    /\ UNCHANGED <<inp, stmt, res, macroVal, calls, exit>>

Method ==
    /\ AtOp /\ Cur.op \in Methods
    /\ Step(ApplyMethod(Cur, Top.val))
    /\ log' = Append(log, Ev(Cur.op, TRUE, 0))
    /\ UNCHANGED <<inp, stmt, res, macroVal, calls, exit>>

Expect ==
    /\ AtOp /\ Cur.op = "expect"
    /\ IF Unwraps(Top.val)
       THEN Step(Top.val.v) /\ UNCHANGED exit
       ELSE stack' = <<>> /\ exit' = "panic"
    /\ log' = Append(log, Ev("expect", Unwraps(Top.val), 0))
    /\ UNCHANGED <<inp, stmt, res, macroVal, calls>>

\* `?` on Some(v) or Ok(v): the chain goes on with v
TryContinue ==
    /\ AtOp /\ Cur.op = "?" /\ Unwraps(Top.val)
    /\ Step(Top.val.v)
    /\ log' = Append(log, Ev("?", TRUE, 0))
    /\ UNCHANGED <<inp, stmt, res, macroVal, calls, exit>>

\* `?` on None or Err(e): return from the innermost function or closure
TryReturn ==
    /\ AtOp /\ Cur.op = "?" /\ ~Unwraps(Top.val)
    /\ ReturnValue(Residual(Top.val, Top.errTy))
    /\ exit' = IF Len(stack) = 1 THEN "early" ELSE exit
    /\ log' = Append(log, Ev("?", FALSE, 0))
    /\ UNCHANGED <<inp, stmt, res, calls>>

\* (|| body)(): the closure is built and called on the spot
Call ==
    /\ AtOp /\ Cur.op = "call"
    /\ stack' = Append(stack,
          Frame(Cur.body.ops, ErrTypeOf(Cur, SubSeq(Top.ops, Top.pc + 1, Len(Top.ops))),
                "closure"))
    /\ calls' = [calls EXCEPT ![stmt] = @ + 1]
    /\ log' = Append(log, Ev("call", TRUE, 0))
    /\ UNCHANGED <<inp, stmt, res, macroVal, exit>>

\* the closure's body is evaluated to its end: its value is the call's value
Return ==
    /\ Running /\ Len(stack) > 1 /\ Top.pc > Len(Top.ops)
    /\ ReturnValue(Top.val)
    /\ log' = Append(log, Ev("return", TRUE, 0))
    /\ UNCHANGED <<inp, stmt, res, calls, exit>>

\* fn_try's match, arm Ok(v) => v
MatchOk ==
    /\ AtOp /\ Cur.op = "match" /\ Top.val.tag = "Ok"
    /\ Step(Top.val.v)
    /\ log' = Append(log, Ev("match", TRUE, 0))
    /\ UNCHANGED <<inp, stmt, res, macroVal, calls, exit>>

\* fn_try's match, arm Err(e) => match e { the catch arms }
MatchErr ==
    /\ AtOp /\ Cur.op = "match" /\ Top.val.tag = "Err"
    /\ Step(Cur.arms[FirstArm(Cur.arms, Top.val.v)].body)
    /\ log' = Append(log, Ev("arm", TRUE, FirstArm(Cur.arms, Top.val.v)))
    /\ UNCHANGED <<inp, stmt, res, macroVal, calls, exit>>

\* `let foo = ...;` of the enclosing function
BindResult ==
    /\ AtOp /\ Cur.op = "bind"
    /\ res' = [res EXCEPT ![stmt] = Top.val]
    /\ stmt' = stmt + 1
    /\ Step(Unset)
    /\ log' = Append(log, Ev("bind", TRUE, 0))
    /\ UNCHANGED <<inp, macroVal, calls, exit>>

\* the enclosing function reaches its end
Finish ==
    /\ Running /\ Len(stack) = 1 /\ Top.pc > Len(Top.ops)
    /\ stack' = <<>>
    /\ exit' = "returned"
    /\ UNCHANGED <<inp, stmt, res, macroVal, calls, log>>

Init ==
    /\ inp \in Inputs
    /\ stack = <<Frame(Expand(Program(inp)), "-", "fn")>>
    /\ stmt = 1
    /\ res = [k \in StmtIds |-> Unset]
    /\ macroVal = [k \in StmtIds |-> Unset]
    /\ calls = [k \in StmtIds |-> 0]
    /\ log = <<>>
    /\ exit = "running"

Next ==
    \/ Load
    \/ LetLocal
    \/ Method
    \/ Expect
    \/ TryContinue
    \/ TryReturn
    \/ Call
    \/ Return
    \/ MatchOk
    \/ MatchErr
    \/ BindResult
    \/ Finish

Spec == Init /\ [][Next]_vars

-----------------------------------------------------------------------------
(* Vocabulary of the properties *)

NStmts == IF inp.scen = "try" THEN 3 ELSE 4
Finished == stack = <<>>
Done(k) == stmt > k

\* the statements that are macro invocations
MacroStmts ==
    CASE inp.scen \in {"when", "typed"} -> 1..4
      [] inp.scen = "showcase" -> {3, 4}
      [] inp.scen = "try" -> 1..3
      [] OTHER -> {}

\* a `?` of statement k met None or Err
FailedTry(e) == e.op = "?" /\ ~e.ok
EarlyExitIn(k) == \E i \in 1..Len(log) : log[i].k = k /\ FailedTry(log[i])

\* the steps of the closure body of statement k, in the order evaluated
BodyTrace(k) ==
    LET t == SelectSeq(log, LAMBDA e : e.k = k /\ e.d = 2)
    IN  [i \in 1..Len(t) |-> <<t[i].pc, t[i].op, t[i].ok>>]

ArmsOf(k) ==
    LET t == SelectSeq(log, LAMBDA e : e.k = k /\ e.op = "arm")
    IN  [i \in 1..Len(t) |-> t[i].n]

BodyStarts(k) == Len(SelectSeq(log, LAMBDA e : e.k = k /\ e.d = 2 /\ e.pc = 1))

\* o?.when(p1)?.when(p2), said directly
WhenExpected ==
    IF inp.o.tag = "Some" /\ Holds(inp.p1, inp.o.v) /\ Holds(inp.p2, inp.o.v)
    THEN Some(inp.o.v)
    ELSE None

\* the number the byte slice holds, when it decodes and its trimmed text parses
Decoded == from_utf8(inp.bytes)
Parsed == parse_u32(trim(Decoded.v))
ParsesOk == Decoded.tag = "Ok" /\ Parsed.tag = "Ok"

-----------------------------------------------------------------------------
(* Properties *)

\* C1: in fn_expr!/fn_block! without a type annotation, a `?` that meets None
\* leaves only the closure: the macro invocation evaluates to None, the
\* enclosing function is not left, and it goes on to execute every statement
\* that follows (it is never stuck, and when it ends it has returned normally
\* with every statement's value bound).
C1_EarlyExitStaysInWrapper ==
    inp.scen \in {"when", "showcase"} =>
        /\ exit # "early"
        /\ \A i \in 1..Len(log) :
              (FailedTry(log[i]) /\ log[i].k \in MacroStmts) =>
                  /\ log[i].d = 2
                  /\ macroVal[log[i].k] = None
                  /\ Done(log[i].k) => res[log[i].k] = None
        /\ (~Finished => ENABLED Next)
        /\ (Finished => exit = "returned" /\ \A k \in 1..NStmts : Done(k) /\ res[k] # Unset)

C1_Witness ==
    /\ inp.scen = "when" /\ exit = "returned"
    /\ EarlyExitIn(1) /\ res[1] = None
    /\ \A k \in 2..4 : res[k] # Unset

\* C2: o?.when(p1)?.when(p2) wrapped as an expression in fn_expr!, as a block
\* in fn_expr! and as a block in fn_block! yields Some(v) exactly when
\* o = Some(v) and p1(v) and p2(v), None otherwise; without an early exit the
\* value is that of the body's last expression, when(p2) of the unwrapped value.
C2_WhenChainResult ==
    inp.scen = "when" =>
        \A k \in 1..3 : Done(k) =>
            /\ res[k] = WhenExpected
            /\ macroVal[k] = WhenExpected
            /\ (~EarlyExitIn(k) => res[k] = when(inp.o.v, inp.p2))

C2_Witness ==
    /\ inp.scen = "when" /\ inp.o = Some(Num(42)) /\ inp.p1 = "gt0" /\ inp.p2 = "even"
    /\ Done(3) /\ res[1] = Some(Num(42)) /\ res[2] = Some(Num(42)) /\ res[3] = Some(Num(42))

\* C3: for every optional text the combinator chain, the hand-written closure
\* and fn_expr! give the same result; "Foobar" gives Some("foo"), "Fo" gives None.
C3_ThreeFormsAgree ==
    (inp.scen = "showcase" /\ Finished) =>
        /\ res[3] # Unset
        /\ res[1] = res[2] /\ res[2] = res[3]
        /\ (inp.text = Some(Str(Foobar)) => res[3] = Some(Str(<<102, 111, 111>>)))
        /\ (inp.text = Some(Str(<<70, 111>>)) => res[3] = None)

C3_Witness ==
    /\ inp.scen = "showcase" /\ Finished /\ inp.text = Some(Str(Foobar))
    /\ res[1] = Some(Str(<<102, 111, 111>>)) /\ res[3] = res[1]

\* C4: v.into_some() is Some(v), never None, and unwrapping it gives v back.
C4_IntoSomeRoundTrip ==
    inp.scen = "into" =>
        /\ Done(3) => (res[3].tag = "Some" /\ res[3].v = inp.v)
        /\ Done(4) => res[4] = inp.v
        /\ \A i \in 1..Len(log) : (log[i].k = 4 /\ log[i].op = "expect") => log[i].ok

C4_Witness == inp.scen = "into" /\ inp.v = None /\ Done(4) /\ res[3] = Some(None) /\ res[4] = None

\* C5: v.into_ok() is Ok(v) whatever the error type E, never a failure:
\* expecting its value never panics and gives v.
C5_IntoOkInfallible ==
    inp.scen = "into" =>
        /\ Done(1) => res[1] = Ok(inp.v)
        /\ Done(2) => res[2] = inp.v
        /\ \A i \in 1..Len(log) : (log[i].k = 2 /\ log[i].op = "expect") => log[i].ok

C5_Witness ==
    /\ inp.scen = "into" /\ inp.E = "u16" /\ inp.v = Err(Utf8Error)
    /\ Done(2) /\ res[1] = Ok(Err(Utf8Error)) /\ res[2] = Err(Utf8Error)

\* C6: fn_expr!/fn_block! with the declared type Result<u32, ConvertErr> around
\* from_utf8(bytes)?.trim().parse::<u32>()?.into_ok(): Ok(n) when the bytes
\* decode and the trimmed text parses as n (" 42" gives 42); otherwise the Err
\* of the declared type, the step's error converted into ConvertErr, so that
\* unwrap_or(0) gives 0; the enclosing function is never left by the failure.
C6_TypedResult ==
    inp.scen = "typed" =>
        /\ exit # "early"
        /\ \A k \in 1..4 : Done(k) =>
              /\ ParsesOk => macroVal[k] = Ok(Parsed.v)
              /\ ~ParsesOk => macroVal[k] = Err(ConvertErrUnit)
              /\ k < 4 => res[k] = (IF ParsesOk THEN Parsed.v ELSE U32(0, 0))
        /\ (inp.bytes = Bytes(<<32, 52, 50>>) /\ Done(1)) => res[1] = U32(0, 42)
        /\ Finished => (exit = "returned" /\ Done(4))

C6_Witness ==
    /\ inp.scen = "typed" /\ inp.bytes = Bytes(<<32, 90, 50>>) /\ Finished
    /\ macroVal[1] = Err(ConvertErrUnit) /\ res[1] = U32(0, 0)
    /\ macroVal[2] = Err(ConvertErrUnit) /\ res[2] = U32(0, 0)

\* C7: fn_try! around from_utf8(s)?.trim().parse::<u32>()? with the arms
\* StrParseErr => 0 and IntParseErr => u32::max_value() always gives a bare u32:
\* the number when both steps succeed (" 42" gives 42), 0 when decoding fails,
\* the largest u32 when decoding succeeds and parsing fails (" Z2").
C7_TryRecovers ==
    inp.scen = "try" =>
        /\ \A k \in {1, 3} : Done(k) =>
              /\ res[k].tag = "u32"
              /\ ParsesOk => res[k] = Parsed.v
              /\ Decoded.tag = "Err" => res[k] = U32(0, 0)
              /\ (Decoded.tag = "Ok" /\ Parsed.tag = "Err") => res[k] = U32Max
        /\ (inp.bytes = Bytes(<<32, 52, 50>>) /\ Done(1)) => res[1] = U32(0, 42)
        /\ (inp.bytes = Bytes(<<32, 90, 50>>) /\ Done(1)) => res[1] = U32(Limb - 1, Limb - 1)
        /\ Finished => (exit = "returned" /\ Done(3))

C7_Witness ==
    /\ inp.scen = "try" /\ inp.bytes = Bytes(<<32, 90, 50>>) /\ Finished
    /\ macroVal[1] = Err(IntParseErr) /\ res[1] = U32Max

\* C8: on a block body, fn_block! and fn_expr! with the same type annotation
\* (given or omitted) give the same value and the same early exit: the same
\* steps of the body are evaluated, with the same outcomes.
C8_BlockMacrosAgree ==
    (inp.scen \in {"when", "typed"} /\ Finished) =>
        /\ exit = "returned"
        /\ res[2] # Unset /\ res[2] = res[3]
        /\ macroVal[2] = macroVal[3]
        /\ BodyTrace(2) = BodyTrace(3)
        /\ EarlyExitIn(2) <=> EarlyExitIn(3)

C8_Witness ==
    /\ inp.scen = "typed" /\ Finished /\ EarlyExitIn(2) /\ EarlyExitIn(3)
    /\ macroVal[2] = Err(ConvertErrUnit) /\ macroVal[3] = macroVal[2]

\* C9: evaluation inside the wrapper stops at the first `?` that meets None or
\* Err: the closure is left at once and no later step of its body is evaluated
\* (p2 is not called when p1 rejects, parsing is not attempted when decoding
\* fails).  In fn_try! no arm is evaluated when the body succeeds, and when it
\* fails exactly one is: the first whose pattern matches the error.
C9_StopsAtFirstFailure ==
    /\ \A i \in 1..Len(log) : FailedTry(log[i]) =>
          /\ i = Len(log) => Len(stack) < log[i].d
          /\ \A j \in (i + 1)..Len(log) : log[j].k = log[i].k => log[j].d < log[i].d
    /\ (inp.scen = "when" /\ inp.o.tag = "Some" /\ ~Holds(inp.p1, inp.o.v)) =>
          \A k \in StmtIds : Len(SelectSeq(log, LAMBDA e : e.k = k /\ e.op = "when")) <= 1
    /\ (inp.scen \in {"typed", "try"} /\ Decoded.tag = "Err") =>
          \A i \in 1..Len(log) : log[i].op # "parse_u32"
    /\ inp.scen = "try" => \A k \in 1..3 : Done(k) =>
          ArmsOf(k) = (IF ParsesOk THEN <<>>
                       ELSE IF k = 2 \/ Decoded.tag = "Err" THEN <<1>>
                       ELSE <<2>>)

C9_Witness ==
    /\ inp.scen = "when" /\ inp.o = Some(Num(42)) /\ inp.p1 = "gt1000" /\ inp.p2 = "lt2000"
    /\ Done(1) /\ EarlyExitIn(1)
    /\ Len(SelectSeq(log, LAMBDA e : e.k = 1 /\ e.op = "when")) = 1

\* C10: every invocation of fn_expr!, fn_block! or fn_try! evaluates its body
\* once, at the point of the invocation (the step after the call is the first
\* step of the body) and never again, also after an early exit; nothing is kept
\* from one invocation to the next: the same invocation on the same inputs
\* gives the same result again.
C10_OnceAndStateless ==
    /\ \A k \in StmtIds : calls[k] <= 1 /\ BodyStarts(k) <= 1
    /\ \A k \in MacroStmts : Done(k) => (calls[k] = 1 /\ BodyStarts(k) = 1)
    /\ \A i \in 1..Len(log) : log[i].op = "call" =>
          IF i = Len(log)
          THEN Len(stack) = log[i].d + 1 /\ Top.pc = 1
          ELSE log[i + 1].k = log[i].k /\ log[i + 1].d = log[i].d + 1 /\ log[i + 1].pc = 1
    /\ (inp.scen = "when" /\ Done(4)) =>
          (res[4] = res[1] /\ BodyTrace(4) = BodyTrace(1))
    /\ (inp.scen = "typed" /\ Done(4)) =>
          (macroVal[4] = macroVal[1] /\ BodyTrace(4) = BodyTrace(1))
    /\ (inp.scen = "try" /\ Done(3)) =>
          (res[3] = res[1] /\ BodyTrace(3) = BodyTrace(1))

C10_Witness ==
    /\ inp.scen = "try" /\ Finished /\ EarlyExitIn(1) /\ EarlyExitIn(3)
    /\ calls = [k \in StmtIds |-> IF k = 4 THEN 0 ELSE 1]
    /\ res[1] = U32(0, 0) /\ res[3] = U32(0, 0)

====
